---- MODULE Spec2Model ----
(***************************************************************************)
(* Model of anki_vector_tool.py: the incremental synchronisation of an     *)
(* Anki deck (the Note Source, reached through AnkiConnect) into a         *)
(* ChromaDB collection (the Similarity Index), the duplicate query and     *)
(* the mapping of deck names to collection names.                          *)
(*                                                                         *)
(* The specifications of the module:                                       *)
(*   Spec          the deck / index state machine (incremental_sync_deck,  *)
(*                 add_single_card_to_vector_db, changes made in Anki);    *)
(*   SpecFacets    the same, on decks of at most a batch and one note;     *)
(*   SpecSync      incremental_sync_deck and the changes made in Anki;     *)
(*   SpecRace      incremental_sync_deck with a note deleted in Anki       *)
(*                 while the call runs;                                    *)
(*   SpecPool      the thread pool of one incremental_sync_deck call;      *)
(*   SpecFind      find_similar_cards applied to bounded query results;    *)
(*   SpecName      get_collection / sanitize_collection_name applied to    *)
(*                 bounded deck names;                                     *)
(*   SpecDecks     sync and sync-all on two decks with distinct names;     *)
(*   SpecCards     sync, find_similar_cards and add_card_to_anki on notes  *)
(*                 with their texts;                                       *)
(*   SpecOverwrite sync, find_similar_cards and the overwrite of add-card; *)
(*   SpecImport    add-from-file.                                          *)
(***************************************************************************)
EXTENDS Integers, Sequences, FiniteSets, TLC

\* ------------------------------------------------------------------ bounds
\* Note identifiers are 1..MaxNotes: 41 notes give two full batches and a
\* third one.
MaxNotes == 41
\* At most MaxFaults collaborator calls (AnkiConnect or ChromaDB) fail.
MaxFaults == 2
\* At most MaxChanges notes are created or deleted in Anki behind the tool's back.
MaxChanges == 1

\* Similarities, distances and thresholds are multiples of 1/Unit: Unit
\* stands for 1.0.
Unit == 2
\* The deck with texts starts with up to MaxCards notes; the tool creates up
\* to MaxCreated notes in it and overwrites the fields of a note up to
\* MaxEdits times.
MaxCards == 6
MaxCreated == 2
MaxEdits == 1
\* At most MaxCardFaults collaborator calls fail on the deck with texts.
MaxCardFaults == 1
\* Each of the two decks that are synchronised side by side has up to
\* MaxDeckNotes notes, and up to MaxRounds calls of incremental_sync_deck
\* are made on them.
MaxDeckNotes == 2
MaxRounds == 4
\* Deck names have up to MaxNameLen characters.
MaxNameLen == 70
\* A call of incremental_sync_deck whose pool is followed task by task has
\* up to MaxPoolBatches batches.
MaxPoolBatches == 6

\* batch_size = 20 (incremental_sync_deck).
BatchSize == 20
\* n_results = 5 (find_similar_cards).
NResults == 5
\* The shortest and the longest name sanitize_collection_name returns.
MinLen == 3
MaxLen == 63

VARIABLES
    source,     \* Anki: the note ids currently in the deck
    nextId,     \* Anki: the id the next created note gets (ids are never reused)
    malformed,  \* Anki: the note ids whose note type lacks a Front or Back field
    index,      \* ChromaDB collection of the deck: the set of entry ids <<note, side>>
    call,       \* the last operation of the tool: its inputs' outcomes and its result
    changed,    \* Anki was changed since the last operation
    tick,       \* flips on every operation of the tool
    faults,     \* the collaborator calls that have failed so far
    changes,    \* the notes created or deleted in Anki so far
    find,       \* a call of find_similar_cards: what the query answers, what it returns
    naming,     \* a call of get_collection: the deck name, the collection name asked for
    stores,     \* two decks of Anki, the collections of their names and the syncs made
    pool,       \* the worker pool of a call of incremental_sync_deck and its loop
    fields,     \* Anki, with the texts: note id -> [front, back]
    docs,       \* ChromaDB, with the texts: entry id -> the [front, back] of its metadata
    session     \* the command running on fields and docs, and its last call

deck == <<source, nextId, malformed, index, call, changed, tick, faults, changes>>
cardvars == <<fields, docs, session>>
namevars == <<naming, stores>>
vars == <<deck, find, namevars, pool, cardvars>>

NoteIds == 1..MaxNotes

\* ------------------------------------------------------------ small helpers
\* The ids of S in ascending order: the order in which findNotes / notesInfo
\* list the notes of a deck.
SortedSeq(S) == SelectSeq([i \in 1..(MaxNotes + 1) |-> i], LAMBDA n : n \in S)

Min(S) == Head(SortedSeq(S))
Max(S) == LET s == SortedSeq(S) IN s[Len(s)]

SeqToSet(s) == {s[i] : i \in 1..Len(s)}

\* f"{note_id}_front", f"{note_id}_back"
FrontId(n) == <<n, "front">>
BackId(n)  == <<n, "back">>

\* --------------------------------------------------------------- ChromaDB
\* collection.get(where={"type": "front"}) projected to metadata note_id
\* (lines 173-180): the notes that have a front entry.
ExistingNoteIds(idx) == {e[1] : e \in {x \in idx : x[2] = "front"}}

\* CollectionAdd with a failing call that has inserted its first id.
CollectionAddPartial(idx, ids, ok) ==
    IF ok THEN idx \cup SeqToSet(ids) ELSE idx \cup {ids[1]}

\* collection.add(ids=ids): an entry whose id is already present is left as it
\* is, the others are inserted; a failing call (ChromaError) inserts nothing.
CollectionAdd(idx, ids, ok) == IF ok THEN idx \cup SeqToSet(ids) ELSE idx

\* collection.delete(ids=ids); a failing call deletes nothing.
CollectionDelete(idx, ids, ok) == IF ok THEN idx \ ids ELSE idx

\* ------------------------------------------------------------- AnkiConnect
\* get_deck_cards: the deck's notes in findNotes order, or [] when findNotes
\* or notesInfo answers with an error, or when the deck has no notes.
GetDeckCards(src, ok) == IF ok THEN SortedSeq(src) ELSE <<>>

\* ------------------------------------------------------- process_card_batch
\* The ids of the entries of a batch: a front and a back entry per note, in
\* order; a note without Front or Back raises inside the loop and is skipped.
\* ProcessCardBatch with the front entry of a note appended before its Back
\* field is read: a note without Back leaves its front entry behind.
RECURSIVE ProcessCardBatchFrontFirst(_, _)
ProcessCardBatchFrontFirst(cards, mal) ==
    IF cards = <<>> THEN <<>>
    ELSE LET n == Head(cards)
             rest == ProcessCardBatchFrontFirst(Tail(cards), mal)
         IN  IF n \in mal THEN <<FrontId(n)>> \o rest
             ELSE <<FrontId(n), BackId(n)>> \o rest

RECURSIVE ProcessCardBatch(_, _)
ProcessCardBatch(cards, mal) ==
    IF cards = <<>> THEN <<>>
    ELSE LET n == Head(cards)
             rest == ProcessCardBatch(Tail(cards), mal)
         IN  IF n \in mal THEN rest
             ELSE <<FrontId(n), BackId(n)>> \o rest

\* The notes that have an entry among ids.
NotesOfIds(ids) == {ids[i][1] : i \in 1..Len(ids)}

\* ------------------------------------------------------ the record of a call
\* What one call of the tool did: which collaborator calls failed, what it
\* returned or whether it raised, and what it sent to the index.
\*   batches  the batches of new cards, each the set of its note ids
\*   adds     the collection.add calls in the order they were made, each with
\*            its batch number, the ids it passed, their notes and its outcome
\*   removed  len(removed_note_ids), the count the final log line reports
\*   srcChanged  Anki was changed between the call before and this call
\*   toRemove removed_note_ids
\*   calls    the calls made on the collection, in the order they were made
\*   gone     the notes deleted in Anki while the call was running
NoCall ==
    [op |-> "none", note |-> 0, fetchFailed |-> FALSE, collFailed |-> FALSE,
     getFailed |-> FALSE,
     delFailed |-> FALSE, raised |-> FALSE, ret |-> 0, ok |-> FALSE,
     removed |-> 0, batches |-> <<>>, adds |-> <<>>,
     srcChanged |-> FALSE, toRemove |-> {}, calls |-> <<>>, gone |-> {}]

\* The notes whose entries the call passed to collection.add.
Submitted(c) == UNION {c.adds[i].notes : i \in 1..Len(c.adds)}
\* The notes of the add calls that failed / succeeded.
FailedNotes(c) == UNION {c.adds[i].notes : i \in {j \in 1..Len(c.adds) : ~c.adds[j].ok}}
AddedNotes(c)  == UNION {c.adds[i].notes : i \in {j \in 1..Len(c.adds) : c.adds[j].ok}}

\* ---------------------------------------------------- incremental_sync_deck
\* batches = [new_cards[i : i + batch_size] for i in range(0, len, batch_size)]
NumBatches(new_cards) == (Len(new_cards) + BatchSize - 1) \div BatchSize
Batches(new_cards) ==
    [i \in 1..NumBatches(new_cards) |->
        SubSeq(new_cards, (i - 1) * BatchSize + 1,
               IF i * BatchSize < Len(new_cards) THEN i * BatchSize ELSE Len(new_cards))]

\* AddBatches with a failing add ending the loop: the batches that complete
\* after it are not added.
RECURSIVE AddBatchesAbort(_, _, _, _, _)
AddBatchesAbort(order, batches, mal, failed, acc) ==
    IF order = <<>> THEN acc
    ELSE IF Head(order) > Len(batches)
         THEN AddBatchesAbort(Tail(order), batches, mal, failed, acc)
    ELSE LET i   == Head(order)
             ids == ProcessCardBatch(batches[i], mal)
             ok  == i \notin failed
         IN  IF ids = <<>> THEN AddBatchesAbort(Tail(order), batches, mal, failed, acc)
             ELSE IF ~ok
                  THEN [acc EXCEPT !.adds = Append(acc.adds,
                                     [batch |-> i, notes |-> NotesOfIds(ids), ids |-> ids,
                                      ok |-> FALSE])]
             ELSE AddBatchesAbort(Tail(order), batches, mal, failed,
                      [index |-> CollectionAdd(acc.index, ids, TRUE),
                       added_count |-> acc.added_count + (Len(ids) \div 2),
                       adds |-> Append(acc.adds,
                                   [batch |-> i, notes |-> NotesOfIds(ids), ids |-> ids, ok |-> TRUE])])

\* AddBatches with added_count set to, in place of raised by, the count of
\* the batch just added.
RECURSIVE AddBatchesLastCount(_, _, _, _, _)
AddBatchesLastCount(order, batches, mal, failed, acc) ==
    IF order = <<>> THEN acc
    ELSE IF Head(order) > Len(batches)
         THEN AddBatchesLastCount(Tail(order), batches, mal, failed, acc)
    ELSE LET i   == Head(order)
             ids == ProcessCardBatch(batches[i], mal)
             ok  == i \notin failed
             nxt == IF ids = <<>> THEN acc
                    ELSE [index |-> CollectionAdd(acc.index, ids, ok),
                          added_count |-> IF ok THEN Len(ids) \div 2 ELSE acc.added_count,
                          adds |-> Append(acc.adds,
                                     [batch |-> i, notes |-> NotesOfIds(ids), ids |-> ids, ok |-> ok])]
         IN  AddBatchesLastCount(Tail(order), batches, mal, failed, nxt)

\* The loop over as_completed (lines 221-257): the batches are taken in the
\* order they complete; a batch with documents is added with one call, and
\* counted when that call succeeds; a failing add is logged and the loop
\* goes on.  acc = [index, added_count, adds].
RECURSIVE AddBatches(_, _, _, _, _)
AddBatches(order, batches, mal, failed, acc) ==
    IF order = <<>> THEN acc
    ELSE IF Head(order) > Len(batches) THEN AddBatches(Tail(order), batches, mal, failed, acc)
    ELSE LET i   == Head(order)
             ids == ProcessCardBatch(batches[i], mal)
             ok  == i \notin failed
             nxt == IF ids = <<>> THEN acc
                    ELSE [index |-> CollectionAdd(acc.index, ids, ok),
                          added_count |-> IF ok THEN acc.added_count + (Len(ids) \div 2)
                                          ELSE acc.added_count,
                          adds |-> Append(acc.adds,
                                     [batch |-> i, notes |-> NotesOfIds(ids), ids |-> ids, ok |-> ok])]
         IN  AddBatches(Tail(order), batches, mal, failed, nxt)

\* One call of incremental_sync_deck on deck contents src and index idx.
\*   fetchOK  findNotes and notesInfo answer        collOK  get_collection answers
\*   getOK    collection.get answers                delOK   collection.delete answers
\*   failed   the batches whose collection.add fails
\*   order    the order in which the batches complete (a permutation of
\*            1..MaxBatches; the numbers beyond the last batch are passed over)
\* The result is [index, call].
IncrementalSyncDeck(src, idx, mal, fetchOK, collOK, getOK, delOK, failed, order) ==
    LET anki_cards == GetDeckCards(src, fetchOK)
        base == [NoCall EXCEPT !.op = "sync", !.fetchFailed = ~fetchOK]
    IN
    IF anki_cards = <<>> THEN                               \* lines 165-167
        [index |-> idx, call |-> base]
    ELSE IF ~collOK THEN                                    \* line 169: raises
        [index |-> idx, call |-> [base EXCEPT !.collFailed = TRUE, !.raised = TRUE]]
    ELSE
    LET existing_note_ids == IF getOK THEN ExistingNoteIds(idx) ELSE {}
        current_note_ids  == SeqToSet(anki_cards)
        new_note_ids      == current_note_ids \ existing_note_ids
        removed_note_ids  == existing_note_ids \ current_note_ids
        ids_to_remove     == {FrontId(n) : n \in removed_note_ids}
                                 \cup {BackId(n) : n \in removed_note_ids}
        idx1 == IF removed_note_ids # {} THEN CollectionDelete(idx, ids_to_remove, delOK)
                ELSE idx
        c1 == [base EXCEPT !.getFailed = ~getOK,
                           !.delFailed = (removed_note_ids # {} /\ ~delOK),
                           !.removed = Cardinality(removed_note_ids),
                           !.toRemove = removed_note_ids,
                           !.calls = IF removed_note_ids # {} THEN <<"get", "delete">>
                                     ELSE <<"get">>]
    IN
    IF new_note_ids = {} THEN                               \* lines 201-203
        [index |-> idx1, call |-> c1]
    ELSE
    LET new_cards == SelectSeq(anki_cards, LAMBDA n : n \in new_note_ids)
        batches   == Batches(new_cards)
        acc == AddBatches(order, batches, mal, failed,
                          [index |-> idx1, added_count |-> 0, adds |-> <<>>])
    IN  [index |-> acc.index,
         call |-> [c1 EXCEPT !.ret = acc.added_count,
                             !.batches = [i \in 1..Len(batches) |-> SeqToSet(batches[i])],
                             !.adds = acc.adds,
                             !.calls = c1.calls \o [k \in 1..Len(acc.adds) |-> "add"]]]

\* One call of incremental_sync_deck during which note gone is deleted in
\* Anki after findNotes listed it and before notesInfo is asked for it.
\*   resp   what notesInfo answers: "empty" (an empty object in the place of
\*          the note that no longer exists) or "error"
\* With the error get_deck_cards returns [] (lines 114-116); with the empty
\* object anki_cards is not empty, the collection is obtained and read, and
\* card["noteId"] raises KeyError at line 186.
IncrementalSyncDeckListed(src, idx, gone, resp, collOK, getOK) ==
    LET base == [NoCall EXCEPT !.op = "sync", !.gone = {gone}]
    IN
    IF resp = "error" THEN
        [index |-> idx, call |-> [base EXCEPT !.fetchFailed = TRUE]]
    ELSE IF ~collOK THEN
        [index |-> idx, call |-> [base EXCEPT !.collFailed = TRUE, !.raised = TRUE]]
    ELSE
        [index |-> idx, call |-> [base EXCEPT !.getFailed = ~getOK, !.raised = TRUE,
                                             !.calls = <<"get">>]]

\* len(batches) of a call: the batches of the deck's notes that the read of
\* the index did not list, none when the call returns or raises before.
BatchCount(src, idx, fetchOK, collOK, getOK) ==
    IF fetchOK /\ collOK
    THEN (Cardinality(src \ (IF getOK THEN ExistingNoteIds(idx) ELSE {})) + BatchSize - 1)
             \div BatchSize
    ELSE 0

\* The most batches one call can make.
MaxBatches == (MaxNotes + BatchSize - 1) \div BatchSize

\* ---------------------------------------------- add_single_card_to_vector_db
\* One call for note n.
\*   resp    what notesInfo answers: "error", "empty" (no result) or "note"
\*   collOK  get_collection answers        addOK  collection.add answers
\* The note data of a note that has no Front or Back field, or of an id that
\* Anki no longer knows (notesInfo answers an empty object for it), makes
\* lines 320-322 raise KeyError; get_collection's error is re-raised.
AddSingleCardToVectorDb(src, idx, mal, n, resp, collOK, addOK) ==
    LET base == [NoCall EXCEPT !.op = "ingestOne", !.note = n,
                               !.fetchFailed = (resp = "error")]
    IN
    IF resp # "note" THEN                                   \* lines 314-318
        [index |-> idx, call |-> base]
    ELSE IF n \in mal \/ n \notin src THEN                  \* lines 320-322: raises
        [index |-> idx, call |-> [base EXCEPT !.raised = TRUE]]
    ELSE IF ~collOK THEN                                    \* line 323: raises
        [index |-> idx, call |-> [base EXCEPT !.collFailed = TRUE, !.raised = TRUE]]
    ELSE
        [index |-> CollectionAdd(idx, <<FrontId(n), BackId(n)>>, addOK),
         call |-> [base EXCEPT !.ok = addOK,
                               !.adds = <<[batch |-> 1, notes |-> {n},
                                            ids |-> <<FrontId(n), BackId(n)>>, ok |-> addOK]>>,
                               !.calls = <<"add">>]]

\* The collaborator calls that failed during the call.
B2N(b) == IF b THEN 1 ELSE 0
FaultCount(c) ==
    B2N(c.fetchFailed) + B2N(c.collFailed) + B2N(c.getFailed) + B2N(c.delFailed)
        + Cardinality({i \in 1..Len(c.adds) : ~c.adds[i].ok})

\* --------------------------------------------------------- find_similar_cards
\* similarity = 1 - distance (line 290), in units of 1/Unit.
Similarity(distance) == Unit - distance

\* The threshold test with > in place of >=.
ClearsStrictly(similarity, threshold) == similarity > threshold

\* similarity >= threshold (line 291).
Clears(similarity, threshold) == similarity >= threshold

\* The loop of lines 289-301 over the query's results, each a record
\* [distance, note_id] (the metadata's front and back texts are copied along
\* with note_id and are left out): a result that clears the threshold is
\* appended.
RECURSIVE FilterSimilar(_, _, _)
FilterSimilar(results, threshold, similar) ==
    IF results = <<>> THEN similar
    ELSE LET r == Head(results)
             similarity == Similarity(r.distance)
         IN  FilterSimilar(Tail(results), threshold,
                 IF Clears(similarity, threshold)
                 THEN Append(similar, [similarity |-> similarity, note_id |-> r.note_id,
                                       match_type |-> "front"])
                 ELSE similar)

\* One call of find_similar_cards.
\*   fault  "none", "collection" (get_collection raises, line 274) or "query"
\*          (collection.query raises ChromaError, lines 282-284)
\* The result is what the caller sees: an exception or the returned list.
FindSimilarCards(fault, results, threshold) ==
    IF fault = "collection" THEN [raised |-> TRUE, similar |-> <<>>]
    ELSE IF fault = "query" THEN [raised |-> FALSE, similar |-> <<>>]
    ELSE [raised |-> FALSE, similar |-> FilterSimilar(results, threshold, <<>>)]

NoFind == [pc |-> "idle", fault |-> "none", results |-> <<>>, threshold |-> 0,
           raised |-> FALSE, similar |-> <<>>]

\* What collection.query(n_results=5, where type=front) can answer: up to
\* NResults results, nearest first, of distinct notes.  Distances run from 0
\* to beyond 1.0 (the metric is not bounded by 1).
Distances == 0..(Unit + 1)
Thresholds == 0..Unit
QueryResults ==
    UNION {{[i \in 1..n |-> [distance |-> d[i], note_id |-> ((i + off) % NResults) + 1]] :
               d \in {e \in [1..n -> Distances] : \A i, j \in 1..n : i < j => e[i] <= e[j]},
               off \in 0..(NResults - 1)} : n \in 0..NResults}

\* ------------------------------------ sanitize_collection_name, get_collection
\* A name is a sequence of characters.  Alnum stands for [A-Za-z0-9] (the
\* letters of "anki_cards_", a capital and a digit), Allowed for
\* [A-Za-z0-9_-]; deck names are written with Chars.
Alnum   == {"a", "c", "d", "i", "k", "n", "r", "s", "Z", "7"}
Allowed == Alnum \cup {"_", "-"}
Chars   == {"a", "Z", "7", "_", "-", " ", "!"}

\* re.sub(r"[^A-Za-z0-9_-]", "_", deck_name)
ReplaceDisallowed(name) ==
    [i \in 1..Len(name) |-> IF name[i] \in Allowed THEN name[i] ELSE "_"]

\* re.sub(r"^[^A-Za-z0-9]+", "", sanitized)
RECURSIVE StripLeading(_)
StripLeading(name) ==
    IF name = <<>> \/ Head(name) \in Alnum THEN name ELSE StripLeading(Tail(name))

\* re.sub(r"[^A-Za-z0-9]+$", "", sanitized)
RECURSIVE StripTrailing(_)
StripTrailing(name) ==
    IF name = <<>> \/ name[Len(name)] \in Alnum THEN name
    ELSE StripTrailing(SubSeq(name, 1, Len(name) - 1))

\* sanitized.ljust(3, "_")
RECURSIVE LJust(_, _, _)
LJust(name, width, fill) ==
    IF Len(name) >= width THEN name ELSE LJust(Append(name, fill), width, fill)

\* sanitize_collection_name without the cut at 63 characters.
SanitizeCollectionNameUncut(deck_name) ==
    LET stripped == StripTrailing(StripLeading(ReplaceDisallowed(deck_name)))
    IN  IF Len(stripped) < MinLen THEN LJust(stripped, MinLen, "_") ELSE stripped

SanitizeCollectionName(deck_name) ==
    LET stripped == StripTrailing(StripLeading(ReplaceDisallowed(deck_name)))
        padded   == IF Len(stripped) < MinLen THEN LJust(stripped, MinLen, "_") ELSE stripped
    IN  IF Len(padded) > MaxLen THEN SubSeq(padded, 1, MaxLen) ELSE padded

\* The name get_collection passes to get_or_create_collection:
\* f"anki_cards_{sanitized}" (lines 67-71).
CollectionPrefix == <<"a", "n", "k", "i", "_", "c", "a", "r", "d", "s", "_">>
GetCollectionName(deck_name) == CollectionPrefix \o SanitizeCollectionName(deck_name)

NoNaming == [pc |-> "idle", deck_name |-> <<>>, sanitized |-> <<>>, requested |-> <<>>]

\* The deck names tried: every name of up to two characters, and longer
\* ones made of a run of one character between a first and a last character.
Repeat(c, n) == [i \in 1..n |-> c]
ShortNames == UNION {[1..n -> Chars] : n \in 0..2}
DeckNames ==
    ShortNames \cup
    {<<a>> \o Repeat(c, n) \o <<b>> : a \in {"a", "!"}, b \in {"Z", "_"},
                                      c \in {"7", " "}, n \in 1..(MaxNameLen - 2)}

\* ------------------------------------------------------- two decks of Anki
\* Two decks with distinct names, their notes (a note is in one deck), and
\* the collections of the ChromaDB client, by name.
\*   pc     "off", "on"
\*   names  the two deck names           notes  the note ids of each deck
\*   coll   collection name -> the entries of the collection
\*   made   for each deck, the <<collection name, entry id>> that calls of
\*          incremental_sync_deck for the deck have added and that are there
\*   log    the calls of incremental_sync_deck made, in order: the deck,
\*          what the call returned (the notes added), how many notes it
\*          removed, coll before and after the call, made before it
NoStores == [pc |-> "off", names |-> <<>>, notes |-> <<>>, coll |-> <<>>,
             made |-> <<>>, log |-> <<>>]

\* The deck names of the two decks: short names, and two names longer than
\* a collection name may be.
TwoDeckNames ==
    {<<"a", " ", "Z">>, <<"a", "_", "Z">>, <<"a", "-", "Z">>, <<"a", "7", "Z">>,
     <<"a", "Z">>, <<"a", "Z", "!">>,
     <<"a">> \o Repeat("7", MaxLen - 1), <<"a">> \o Repeat("7", MaxLen - 1) \o <<"Z">>}

\* incremental_sync_deck(deck) for deck d of st, every collaborator call
\* succeeding: the collection is the one get_collection returns for the
\* deck's name (line 169).
SyncDeckOf(st, d, order) ==
    LET name  == GetCollectionName(st.names[d])
        other == 3 - d
        r == IncrementalSyncDeck(st.notes[d], st.coll[name], {},
                                 TRUE, TRUE, TRUE, TRUE, {}, order)
        coll1 == [st.coll EXCEPT ![name] = r.index]
        here(E) == {x \in E : x[2] \in coll1[x[1]]}
        added == {<<name, e>> : e \in r.index \ st.coll[name]}
    IN  [st EXCEPT !.coll = coll1,
                   !.made = [k \in 1..2 |-> IF k = d THEN here(st.made[d]) \cup added
                                            ELSE here(st.made[other])],
                   !.log = Append(@, [deck |-> d, ret |-> r.call.ret,
                                      removed |-> r.call.removed,
                                      before |-> st.coll, after |-> coll1,
                                      made |-> st.made])]

\* ---------------------------------------------------- notes with their texts
\* A text is a front and a back.  Fronts and backs are drawn from two values
\* each; the notes of a deck at the start have back "x".
Fronts == {"A", "B"}
Backs  == {"x", "y"}

\* The command running on the deck with texts.
\*   pc       "off", "idle" (between commands), "import" (add-from-file is in
\*            its loop), "crashed" (the command ended with an exception)
\*   next     the id Anki gives the next note it creates
\*   faults   the collaborator calls that have failed so far
\*   made     the notes the tool has created so far
\*   edits    the overwrites of a note's fields so far
\*   last     the record of the last call (as for incremental_sync_deck)
\*   query    the front text and the threshold of the last find_similar_cards
\*   similar  what the last find_similar_cards returned
\*   updated  updateNoteFields of the last overwrite succeeded
\*   records  add-from-file: the records not yet handled
\*   created  add-from-file: the notes the run has created in Anki
\*   atStart  add-from-file: the fronts indexed when the first sync finished
\*   otherFailed  add-from-file: a collaborator call other than an index add
\*            has failed during the run
NoSession ==
    [pc |-> "off", next |-> 1, faults |-> 0, made |-> 0, edits |-> 0, last |-> NoCall,
     query |-> [front |-> "", threshold |-> 0], similar |-> <<>>, updated |-> FALSE,
     records |-> <<>>, created |-> {}, atStart |-> {}, otherFailed |-> FALSE]

CardsIdle == fields = <<>> /\ docs = <<>> /\ session = NoSession

\* The index after a call that left it with the entry ids idx: an entry that
\* was there keeps its metadata (collection.add leaves an existing id as it
\* is), an entry the call added has the front and back of its note (lines
\* 132-153, 325-341).
DocsAfter(fld, dcs, idx) ==
    [e \in idx |-> IF e \in DOMAIN dcs THEN dcs[e] ELSE fld[e[1]]]

\* The document of an entry: the front text for a front entry, the back
\* text for a back entry (lines 132, 144, 326).
Document(dcs, e) == IF e[2] = "front" THEN dcs[e].front ELSE dcs[e].back

\* The distance of a query text to a document, in units of 1/Unit: 0 for
\* the same text, 1.0 for another text.
Distance(text, document) == IF text = document THEN 0 ELSE Unit

\* The entries of a set, nearest to the text first, entries of the same
\* distance in the order of their ids.
Ranked(dcs, text, S) ==
    LET width  == 2 * (MaxCards + MaxCreated) + 2
        key(e) == Distance(text, Document(dcs, e)) * width
                      + 2 * e[1] + (IF e[2] = "front" THEN 0 ELSE 1)
        keys   == {key(e) : e \in S}
        sorted == SelectSeq([k \in 1..((Unit + 1) * width) |-> k], LAMBDA k : k \in keys)
    IN  [i \in 1..Len(sorted) |->
            LET e == CHOOSE x \in S : key(x) = sorted[i]
            IN  [distance |-> Distance(text, Document(dcs, e)), note_id |-> e[1]]]

\* collection.query without the where clause: the entries of both sides.
QueryAllSides(dcs, text) ==
    LET ranked == Ranked(dcs, text, DOMAIN dcs)
    IN  SubSeq(ranked, 1, IF Len(ranked) < NResults THEN Len(ranked) ELSE NResults)

\* collection.query(query_texts=[front], n_results=5, where={"type": "front"})
\* (lines 276-281): the n_results nearest front entries.
Query(dcs, text) ==
    LET ranked == Ranked(dcs, text, {e \in DOMAIN dcs : e[2] = "front"})
    IN  SubSeq(ranked, 1, IF Len(ranked) < NResults THEN Len(ranked) ELSE NResults)

\* threshold=0.9 of add_card and add_from_file (lines 484, 594), on the grid
\* of 1/Unit: the similarities of the grid that are at least 0.9 are those
\* that are at least 1.0.
DuplicateThreshold == Unit

\* add_card_to_anki(deck, front, back) (lines 349-371): addNote, then
\* add_single_card_to_vector_db for the id Anki answered.
\*   addNoteOK  addNote answers an id       resp, collOK, addOK  as for
\*              add_single_card_to_vector_db
\* The result is [fields, docs, next, call]; call.note is the note created
\* (0 when none was).
AddCardToAnki(fld, dcs, next, text, addNoteOK, resp, collOK, addOK) ==
    IF ~addNoteOK THEN                                      \* lines 363-368
        [fields |-> fld, docs |-> dcs, next |-> next,
         call |-> [NoCall EXCEPT !.op = "addCard", !.fetchFailed = TRUE]]
    ELSE
    LET note_id == next
        fld1 == [n \in DOMAIN fld \cup {note_id} |-> IF n = note_id THEN text ELSE fld[n]]
        r == AddSingleCardToVectorDb(DOMAIN fld1, DOMAIN dcs, {}, note_id, resp, collOK, addOK)
    IN  [fields |-> fld1, docs |-> DocsAfter(fld1, dcs, r.index), next |-> next + 1,
         call |-> [r.call EXCEPT !.op = "addCard"]]

\* ------------------------------------------- the pool of incremental_sync_deck
\* ThreadPoolExecutor(max_workers=4) (line 215).
MaxWorkers == 4

\* The pool of one call (lines 215-257).
\*   n        len(batches)               submitted  the batches passed to submit
\*   empty    the batches for which process_card_batch returns no documents
\*   failing  the batches whose collection.add raises ChromaError
\*   queued   the work queue of the executor, oldest first
\*   running  the batches whose process_card_batch a worker thread is running
\*   finished the batches whose future is done
\*   yielded  the batches as_completed has handed to the loop, in order
\*   runs     how many times the task of each batch was run
\*   adds     the collection.add calls, each with its batch, the thread
\*            that made it ("caller": the thread that runs the loop) and its outcome
NoPool == [pc |-> "idle", n |-> 0, empty |-> {}, failing |-> {}, submitted |-> 0,
           queued |-> <<>>, running |-> {}, finished |-> {}, yielded |-> <<>>,
           runs |-> <<>>, adds |-> <<>>]

\* A pool that starts every queued task at once.
CanStartUnbounded(running) == TRUE

\* A queued task is taken when one of the max_workers threads is free.
CanStart(running) == Cardinality(running) < MaxWorkers

\* The pools of a call with 1 to MaxPoolBatches batches; the last batch may be
\* without documents and the add of the first or of the second batch may fail.
InitPool ==
    /\ source = {} /\ nextId = 1 /\ malformed = {} /\ index = {} /\ call = NoCall
    /\ changed = FALSE /\ tick = FALSE /\ faults = 0 /\ changes = 0
    /\ find = NoFind /\ naming = NoNaming /\ stores = NoStores /\ CardsIdle
    /\ \E n \in 1..MaxPoolBatches, lastEmpty \in BOOLEAN, failing \in {{}, {1}, {2}} :
       LET empty == IF lastEmpty THEN {n} ELSE {}
       IN  /\ failing \subseteq (1..n) \ empty
           /\ pool = [NoPool EXCEPT !.pc = "submit", !.n = n, !.empty = empty,
                                     !.failing = failing, !.runs = [i \in 1..n |-> 0]]

\* executor.submit(self.process_card_batch, batch), the batches in order
\* (lines 216-219).
Submit ==
    /\ pool.pc = "submit"
    /\ pool' = [pool EXCEPT !.submitted = @ + 1,
                            !.queued = Append(@, pool.submitted + 1),
                            !.pc = IF pool.submitted + 1 = pool.n THEN "loop" ELSE "submit"]
    /\ UNCHANGED <<deck, find, namevars, cardvars>>

\* A worker thread takes the oldest queued task.
WorkerStart ==
    /\ pool.queued # <<>>
    /\ CanStart(pool.running)
    /\ pool' = [pool EXCEPT !.queued = Tail(@), !.running = @ \cup {Head(pool.queued)}]
    /\ UNCHANGED <<deck, find, namevars, cardvars>>

\* process_card_batch returns in a worker thread: the future is done.
WorkerFinish ==
    /\ \E i \in pool.running :
          pool' = [pool EXCEPT !.running = @ \ {i}, !.finished = @ \cup {i},
                               !.runs = [@ EXCEPT ![i] = @ + 1]]
    /\ UNCHANGED <<deck, find, namevars, cardvars>>

\* One turn of the loop over as_completed (lines 221-257), in the thread
\* that called incremental_sync_deck: a done future is taken and, when its
\* batch has documents, collection.add is called for it.
LoopTurn ==
    /\ pool.pc = "loop"
    /\ \E i \in pool.finished \ SeqToSet(pool.yielded) :
          pool' = [pool EXCEPT !.yielded = Append(@, i),
                               !.adds = IF i \in pool.empty THEN @
                                        ELSE Append(@, [batch |-> i, by |-> "caller",
                                                        ok |-> i \notin pool.failing])]
    /\ UNCHANGED <<deck, find, namevars, cardvars>>

\* The loop has taken every future; the with block ends (line 258).
LoopEnd ==
    /\ pool.pc = "loop"
    /\ Len(pool.yielded) = pool.n
    /\ pool' = [pool EXCEPT !.pc = "done"]
    /\ UNCHANGED <<deck, find, namevars, cardvars>>

NextPool == Submit \/ WorkerStart \/ WorkerFinish \/ LoopTurn \/ LoopEnd

SpecPool == InitPool /\ [][NextPool]_vars

\* The note types of the deck: every note has Front and Back, one note does
\* not, or the notes of the second batch of a first sync do not.
MalformedChoices == {{}, {2, 2 * BatchSize + 1}}

\* The sizes of the deck at the start: none, one or two notes, a full batch,
\* a batch and one note, two batches, and as many notes as there are ids.
InitSizes == {0, 1, 2, BatchSize + 1, MaxNotes}

\* ------------------------------------------------------------------ actions
Init ==
    /\ \E k \in InitSizes : source = 1..k /\ nextId = k + 1
    /\ malformed \in MalformedChoices
    /\ index = {}
    /\ call = NoCall
    /\ changed = FALSE
    /\ tick = FALSE
    /\ faults = 0
    /\ changes = 0
    /\ find = NoFind
    /\ naming = NoNaming /\ stores = NoStores
    /\ pool = NoPool
    /\ CardsIdle

\* The tool synchronises the deck (sync, and the syncs of add-card and
\* add-from-file).  Every collaborator call may fail; the batches complete
\* in any order (as_completed, line 221).
Reconcile ==
    \E fetchOK, collOK, getOK, delOK \in BOOLEAN :
    \E failed \in SUBSET (1..BatchCount(source, index, fetchOK, collOK, getOK)),
       order \in Permutations(1..BatchCount(source, index, fetchOK, collOK, getOK)) :
        \* no more failures than are left
        /\ B2N(~fetchOK) + B2N(~collOK) + B2N(~getOK) + B2N(~delOK) + Cardinality(failed)
               <= MaxFaults - faults
        \* a call that fails early makes no later collaborator call
        /\ ~(fetchOK /\ collOK) => (getOK /\ delOK /\ failed = {})
        /\ ~fetchOK => collOK
        \* delete is called only when an indexed note has left the deck
        /\ ~delOK => (getOK /\ ExistingNoteIds(index) \ source # {})
        /\ LET r == IncrementalSyncDeck(source, index, malformed,
                                        fetchOK, collOK, getOK, delOK, failed, order)
           IN  /\ faults + FaultCount(r.call) <= MaxFaults
               /\ faults' = faults + FaultCount(r.call)
               /\ index' = r.index
               /\ call' = [r.call EXCEPT !.srcChanged = changed]
               /\ changed' = FALSE
               /\ tick' = ~tick
               /\ UNCHANGED <<source, nextId, malformed, changes, find, namevars, pool, cardvars>>

\* The tool synchronises the deck while Anki deletes a note of it: after
\* findNotes and before notesInfo ("listed"), or after notesInfo, before or
\* during the adds ("fetched"), when the call goes on with the notes it has
\* fetched.
ReconcileDuringDelete ==
    /\ changes < MaxChanges
    /\ source # {}
    /\ \E n \in {Min(source), Max(source)}, point \in {"listed", "fetched"},
          resp \in {"empty", "error"}, collOK, getOK, delOK \in BOOLEAN :
       \E failed \in SUBSET (1..BatchCount(source, index, point = "fetched", collOK, getOK)),
          order \in Permutations(1..BatchCount(source, index, point = "fetched", collOK,
                                               getOK)) :
        /\ B2N(point = "listed" /\ resp = "error") + B2N(~collOK) + B2N(~getOK) + B2N(~delOK)
               + Cardinality(failed) <= MaxFaults - faults
        /\ point = "fetched" => resp = "empty"
        /\ (point = "listed" /\ resp = "error") => collOK
        /\ ~collOK => getOK
        /\ ~delOK => (point = "fetched" /\ getOK /\ ExistingNoteIds(index) \ source # {})
        /\ LET r == IF point = "listed"
                    THEN IncrementalSyncDeckListed(source, index, n, resp, collOK, getOK)
                    ELSE IncrementalSyncDeck(source, index, malformed,
                                             TRUE, collOK, getOK, delOK, failed, order)
           IN  /\ faults + FaultCount(r.call) <= MaxFaults
               /\ faults' = faults + FaultCount(r.call)
               /\ index' = r.index
               /\ call' = [r.call EXCEPT !.srcChanged = changed, !.gone = {n}]
               /\ source' = source \ {n}
               /\ changes' = changes + 1
               /\ changed' = FALSE
               /\ tick' = ~tick
               /\ UNCHANGED <<nextId, malformed, find, namevars, pool, cardvars>>

\* The notes add_single_card_to_vector_db is called for: the note Anki
\* created last (add_card_to_anki, line 371) or a note the index query
\* returned (add_card, line 518).
IngestTargets ==
    (IF nextId > 1 THEN {nextId - 1} ELSE {})
        \cup (IF ExistingNoteIds(index) = {} THEN {} ELSE {Min(ExistingNoteIds(index))})

IngestOne ==
    \E n \in IngestTargets, resp \in {"error", "empty", "note"}, collOK, addOK \in BOOLEAN :
        /\ B2N(resp = "error") + B2N(~collOK) + B2N(~addOK) <= MaxFaults - faults
        /\ ~(resp = "note" /\ collOK) => addOK
        /\ resp # "note" => collOK
        /\ LET r == AddSingleCardToVectorDb(source, index, malformed, n, resp, collOK, addOK)
           IN  /\ faults + FaultCount(r.call) <= MaxFaults
               /\ faults' = faults + FaultCount(r.call)
               /\ index' = r.index
               /\ call' = [r.call EXCEPT !.srcChanged = changed]
               /\ changed' = FALSE
               /\ tick' = ~tick
               /\ UNCHANGED <<source, nextId, malformed, changes, find, namevars, pool, cardvars>>

\* Anki, outside the tool: a note is created in the deck (it gets a fresh id).
AnkiCreate ==
    /\ changes < MaxChanges
    /\ changes' = changes + 1
    /\ nextId <= MaxNotes
    /\ source' = source \cup {nextId}
    /\ nextId' = nextId + 1
    /\ changed' = TRUE
    /\ UNCHANGED <<malformed, index, call, tick, faults, find, namevars, pool, cardvars>>

\* Anki, outside the tool: the oldest or the newest note of the deck is deleted.
AnkiDelete ==
    /\ changes < MaxChanges
    /\ changes' = changes + 1
    /\ source # {}
    /\ \E n \in {Min(source), Max(source)} : source' = source \ {n}
    /\ changed' = TRUE
    /\ UNCHANGED <<nextId, malformed, index, call, tick, faults, find, namevars, pool, cardvars>>

Next == Reconcile \/ IngestOne \/ AnkiCreate \/ AnkiDelete

Spec == Init /\ [][Next]_vars

\* The tool's calls and Anki's changes on a deck of at most a batch and one
\* note at the start.
InitFacets == Init /\ Cardinality(source) <= BatchSize + 1

SpecFacets == InitFacets /\ [][Next]_vars

\* The deck and its synchronisation alone.
NextSync == Reconcile \/ AnkiCreate \/ AnkiDelete

SpecSync == Init /\ [][NextSync]_vars

\* The synchronisation of a deck that Anki changes between and during the
\* calls.
NextRace == Reconcile \/ ReconcileDuringDelete \/ AnkiCreate \/ AnkiDelete

SpecRace == Init /\ [][NextRace]_vars

\* find_similar_cards applied to what the query can answer.
InitFind ==
    /\ source = {} /\ nextId = 1 /\ malformed = {} /\ index = {} /\ call = NoCall
    /\ changed = FALSE /\ tick = FALSE /\ faults = 0 /\ changes = 0
    /\ naming = NoNaming /\ stores = NoStores /\ pool = NoPool /\ CardsIdle
    /\ \E fault \in {"none", "collection", "query"}, results \in QueryResults,
          threshold \in Thresholds :
          find = [NoFind EXCEPT !.pc = "call", !.fault = fault, !.results = results,
                                !.threshold = threshold]

FindSimilar ==
    /\ find.pc = "call"
    /\ LET r == FindSimilarCards(find.fault, find.results, find.threshold)
       IN  find' = [find EXCEPT !.pc = "done", !.raised = r.raised, !.similar = r.similar]
    /\ UNCHANGED <<deck, namevars, pool, cardvars>>

SpecFind == InitFind /\ [][FindSimilar]_vars

\* get_collection applied to deck names.
InitName ==
    /\ source = {} /\ nextId = 1 /\ malformed = {} /\ index = {} /\ call = NoCall
    /\ changed = FALSE /\ tick = FALSE /\ faults = 0 /\ changes = 0
    /\ find = NoFind /\ pool = NoPool /\ CardsIdle
    /\ \E name \in DeckNames : naming = [NoNaming EXCEPT !.pc = "call", !.deck_name = name]
    /\ stores = NoStores

GetCollection ==
    /\ naming.pc = "call"
    /\ naming' = [naming EXCEPT !.pc = "done",
                                !.sanitized = SanitizeCollectionName(naming.deck_name),
                                !.requested = GetCollectionName(naming.deck_name)]
    /\ UNCHANGED <<deck, find, stores, pool, cardvars>>

SpecName == InitName /\ [][GetCollection]_vars

\* ------------------------------------------------- sync and sync-all on two decks
\* Two decks with distinct names; deck 1 has the notes 1..k1, deck 2 the
\* notes after MaxDeckNotes; every collection is empty.
InitDecks ==
    /\ source = {} /\ nextId = 1 /\ malformed = {} /\ index = {} /\ call = NoCall
    /\ changed = FALSE /\ tick = FALSE /\ faults = 0 /\ changes = 0
    /\ find = NoFind /\ naming = NoNaming /\ pool = NoPool /\ CardsIdle
    /\ \E a, b \in TwoDeckNames, k1, k2 \in 0..MaxDeckNotes :
          /\ a # b
          /\ stores = [NoStores EXCEPT
                          !.pc = "on", !.names = <<a, b>>,
                          !.notes = <<1..k1, (MaxDeckNotes + 1)..(MaxDeckNotes + k2)>>,
                          !.coll = [c \in {GetCollectionName(a), GetCollectionName(b)} |-> {}],
                          !.made = <<{}, {}>>]

\* sync (lines 410-422): incremental_sync_deck for one of the decks.
SyncDeck ==
    /\ stores.pc = "on" /\ Len(stores.log) < MaxRounds
    /\ \E d \in 1..2 :
       \E order \in Permutations(1..BatchCount(stores.notes[d],
                       stores.coll[GetCollectionName(stores.names[d])], TRUE, TRUE, TRUE)) :
          stores' = SyncDeckOf(stores, d, order)
    /\ UNCHANGED <<deck, find, naming, pool, cardvars>>

\* sync-all (lines 425-442): incremental_sync_deck for every deck deckNames
\* lists, in the order of the list.
SyncAll ==
    /\ stores.pc = "on" /\ Len(stores.log) + 2 <= MaxRounds
    /\ \E first \in 1..2 :
          LET st1 == SyncDeckOf(stores, first, <<1>>)
          IN  stores' = SyncDeckOf(st1, 3 - first, <<1>>)
    /\ UNCHANGED <<deck, find, naming, pool, cardvars>>

NextDecks == SyncDeck \/ SyncAll

SpecDecks == InitDecks /\ [][NextDecks]_vars

\* ------------------------------------------- the commands on notes with texts
\* The decks at the start: no note, or MaxCards notes with two fronts in
\* turn; nothing is indexed.
InitCards ==
    /\ source = {} /\ nextId = 1 /\ malformed = {} /\ index = {} /\ call = NoCall
    /\ changed = FALSE /\ tick = FALSE /\ faults = 0 /\ changes = 0
    /\ find = NoFind /\ naming = NoNaming /\ stores = NoStores /\ pool = NoPool
    /\ \E k \in {0, MaxCards}, sameFront \in BOOLEAN :
          /\ sameFront <=> k < MaxCards
          /\ fields = [n \in 1..k |-> [front |-> IF sameFront \/ n % 2 = 1 THEN "A" ELSE "B",
                                         back |-> "x"]]
          /\ session = [NoSession EXCEPT !.pc = "idle", !.next = k + 1]
    /\ docs = <<>>

\* The session after a call: its record, the failures it met; what is left
\* of an add-from-file run is dropped.
After(s, c, nfaults) ==
    [s EXCEPT !.faults = @ + nfaults, !.last = c,
              !.similar = <<>>, !.updated = FALSE,
              !.records = <<>>, !.created = {}, !.atStart = {}, !.otherFailed = FALSE]

\* incremental_sync_deck on the deck with texts (sync, and the syncs that
\* open add-card and close it).
CardsSync ==
    /\ session.pc = "idle"
    /\ \E fetchOK, collOK, getOK, delOK \in BOOLEAN :
       \E failed \in SUBSET (1..BatchCount(DOMAIN fields, DOMAIN docs, fetchOK, collOK, getOK)),
          order \in Permutations(1..BatchCount(DOMAIN fields, DOMAIN docs, fetchOK, collOK,
                                               getOK)) :
        /\ B2N(~fetchOK) + B2N(~collOK) + B2N(~getOK) + B2N(~delOK) + Cardinality(failed)
               <= MaxCardFaults - session.faults
        /\ ~(fetchOK /\ collOK) => (getOK /\ delOK)
        /\ ~fetchOK => collOK
        /\ ~delOK => (getOK /\ ExistingNoteIds(DOMAIN docs) \ DOMAIN fields # {})
        /\ LET r == IncrementalSyncDeck(DOMAIN fields, DOMAIN docs, {},
                                        fetchOK, collOK, getOK, delOK, failed, order)
           IN  /\ session.faults + FaultCount(r.call) <= MaxCardFaults
               /\ docs' = DocsAfter(fields, docs, r.index)
               /\ session' = After(session, r.call, FaultCount(r.call))
    /\ UNCHANGED <<fields, deck, find, namevars, pool>>

\* find_similar_cards(front, back, deck, threshold) on the deck with texts.
CardsFind ==
    /\ session.pc = "idle"
    /\ \E front \in Fronts, threshold \in {0, DuplicateThreshold},
          fault \in {"none", "collection", "query"} :
        /\ B2N(fault # "none") <= MaxCardFaults - session.faults
        /\ fault # "none" => (front = "A" /\ threshold = DuplicateThreshold)
        /\ LET r == FindSimilarCards(fault, Query(docs, front), threshold)
               c == [NoCall EXCEPT !.op = "find", !.raised = r.raised,
                                   !.collFailed = (fault = "collection"),
                                   !.getFailed = (fault = "query")]
           IN  session' = [After(session, c, B2N(fault # "none"))
                              EXCEPT !.similar = r.similar,
                                     !.query = [front |-> front, threshold |-> threshold]]
    /\ UNCHANGED <<fields, docs, deck, find, namevars, pool>>

\* The overwrite of add_card (lines 507-520), after its find_similar_cards
\* returned candidates: updateNoteFields sets the fields of the chosen
\* candidate's note to the texts entered, and when it answers without error
\* add_single_card_to_vector_db is called for the note.  updateNoteFields
\* answers an error for a note Anki does not have.
OverwriteCard ==
    /\ session.pc = "idle" /\ session.edits < MaxEdits
    /\ session.last.op = "find" /\ session.query.threshold = DuplicateThreshold
    /\ \E k \in 1..Len(session.similar), back \in Backs, updOK \in BOOLEAN,
          resp \in {"error", "empty", "note"}, collOK, addOK \in BOOLEAN :
        LET note_id == session.similar[k].note_id
            text    == [front |-> session.query.front, back |-> back]
            updated == updOK /\ note_id \in DOMAIN fields
        IN  /\ B2N(~updOK) + B2N(resp = "error") + B2N(~collOK) + B2N(~addOK)
                   <= MaxCardFaults - session.faults
            /\ ~updated => (resp = "note" /\ collOK /\ addOK)
            /\ ~(resp = "note" /\ collOK) => addOK
            /\ resp # "note" => collOK
            /\ IF ~updated
               THEN /\ UNCHANGED <<fields, docs>>
                    /\ session' = After(session,
                                        [NoCall EXCEPT !.op = "overwrite", !.note = note_id,
                                                       !.fetchFailed = ~updOK],
                                        B2N(~updOK))
               ELSE LET fld1 == [fields EXCEPT ![note_id] = text]
                        r == AddSingleCardToVectorDb(DOMAIN fld1, DOMAIN docs, {}, note_id,
                                                     resp, collOK, addOK)
                    IN  /\ fields' = fld1
                        /\ docs' = DocsAfter(fld1, docs, r.index)
                        /\ session' = [After(session, [r.call EXCEPT !.op = "overwrite"],
                                             FaultCount(r.call))
                                          EXCEPT !.updated = TRUE, !.edits = @ + 1]
    /\ UNCHANGED <<deck, find, namevars, pool>>

\* add_card_to_anki(deck, front, back).
AddCard ==
    /\ session.pc = "idle" /\ session.made < MaxCreated
    /\ \E front \in Fronts, addNoteOK \in BOOLEAN,
          resp \in {"error", "empty", "note"}, collOK, addOK \in BOOLEAN :
        /\ B2N(~addNoteOK) + B2N(resp = "error") + B2N(~collOK) + B2N(~addOK)
               <= MaxCardFaults - session.faults
        /\ ~addNoteOK => (resp = "note" /\ collOK /\ addOK)
        /\ ~(resp = "note" /\ collOK) => addOK
        /\ resp # "note" => collOK
        /\ LET r == AddCardToAnki(fields, docs, session.next, [front |-> front, back |-> "x"],
                                  addNoteOK, resp, collOK, addOK)
           IN  /\ fields' = r.fields
               /\ docs' = r.docs
               /\ session' = [After(session, r.call, FaultCount(r.call))
                                 EXCEPT !.next = r.next,
                                        !.made = @ + (r.next - session.next)]
    /\ UNCHANGED <<deck, find, namevars, pool>>

\* The files of add-from-file: one or two records.
ImportFiles ==
    {<<[front |-> f, back |-> "x"]>> : f \in Fronts}
        \cup {<<[front |-> f, back |-> "x"], [front |-> g, back |-> "y"]>> : f, g \in Fronts}

\* add_from_file up to its loop (lines 560-590): the records are read and
\* the deck is synchronised.
ImportStart ==
    /\ session.pc = "idle"
    /\ \E records \in ImportFiles, fetchOK, collOK, getOK, delOK \in BOOLEAN :
       \E failed \in SUBSET (1..BatchCount(DOMAIN fields, DOMAIN docs, fetchOK, collOK, getOK)),
          order \in Permutations(1..BatchCount(DOMAIN fields, DOMAIN docs, fetchOK, collOK,
                                               getOK)) :
        /\ session.made + Len(records) <= MaxCreated
        /\ B2N(~fetchOK) + B2N(~collOK) + B2N(~getOK) + B2N(~delOK) + Cardinality(failed)
               <= MaxCardFaults - session.faults
        /\ ~(fetchOK /\ collOK) => (getOK /\ delOK)
        /\ ~fetchOK => collOK
        /\ ~delOK => (getOK /\ ExistingNoteIds(DOMAIN docs) \ DOMAIN fields # {})
        /\ LET r == IncrementalSyncDeck(DOMAIN fields, DOMAIN docs, {},
                                        fetchOK, collOK, getOK, delOK, failed, order)
               d == DocsAfter(fields, docs, r.index)
           IN  /\ session.faults + FaultCount(r.call) <= MaxCardFaults
               /\ docs' = d
               /\ session' =
                     IF r.call.raised
                     THEN After(session, r.call, FaultCount(r.call))
                     ELSE [After(session, r.call, FaultCount(r.call))
                             EXCEPT !.pc = "import", !.records = records,
                                    !.otherFailed = ~(fetchOK /\ collOK /\ getOK /\ delOK),
                                    !.atStart = {d[e].front : e \in {x \in DOMAIN d :
                                                                       x[2] = "front"}}]
    /\ UNCHANGED <<fields, deck, find, namevars, pool>>

\* One turn of the loop of add_from_file (lines 593-602): the record is
\* skipped when find_similar_cards returns a candidate, and passed to
\* add_card_to_anki otherwise; an exception ends the command.
ImportRecord ==
    /\ session.pc = "import"
    /\ \E fault \in {"none", "collection", "query"}, addNoteOK \in BOOLEAN,
          resp \in {"error", "empty", "note"}, collOK, addOK \in BOOLEAN :
        LET rec  == Head(session.records)
            rest == Tail(session.records)
            f == FindSimilarCards(fault, Query(docs, rec.front), DuplicateThreshold)
            a == AddCardToAnki(fields, docs, session.next, rec, addNoteOK, resp, collOK, addOK)
            adding == ~f.raised /\ f.similar = <<>>
            base == [session EXCEPT !.similar = f.similar,
                                    !.query = [front |-> rec.front,
                                               threshold |-> DuplicateThreshold],
                                    !.records = rest,
                                    !.pc = IF rest = <<>> THEN "idle" ELSE "import"]
        IN  /\ B2N(fault # "none") + B2N(~addNoteOK) + B2N(resp = "error") + B2N(~collOK)
                   + B2N(~addOK) <= MaxCardFaults - session.faults
            /\ (fault = "collection" \/ ~addNoteOK) => (resp = "note" /\ collOK /\ addOK)
            /\ fault = "collection" => addNoteOK
            /\ ~(resp = "note" /\ collOK) => addOK
            /\ resp # "note" => collOK
            /\ ~adding => (addNoteOK /\ resp = "note" /\ collOK /\ addOK)
            /\ IF ~adding
               THEN /\ UNCHANGED <<fields, docs>>
                    /\ session' =
                          [base EXCEPT !.faults = @ + B2N(fault # "none"),
                                       !.otherFailed = @ \/ fault # "none",
                                       !.pc = IF f.raised THEN "crashed" ELSE base.pc,
                                       !.last = [NoCall EXCEPT !.op = "find",
                                                     !.raised = f.raised,
                                                     !.collFailed = (fault = "collection")]]
               ELSE /\ fields' = a.fields
                    /\ docs' = a.docs
                    /\ session' =
                          [base EXCEPT !.faults = @ + B2N(fault # "none") + FaultCount(a.call),
                                       !.otherFailed = @ \/ fault # "none" \/ ~addNoteOK
                                                         \/ resp # "note" \/ ~collOK,
                                       !.pc = IF a.call.raised THEN "crashed" ELSE base.pc,
                                       !.next = a.next,
                                       !.made = @ + (a.next - session.next),
                                       !.created = @ \cup (DOMAIN a.fields \ DOMAIN fields),
                                       !.last = a.call]
    /\ UNCHANGED <<deck, find, namevars, pool>>

\* sync, the duplicate query and add_card_to_anki.
NextCards == CardsSync \/ CardsFind \/ AddCard

SpecCards == InitCards /\ [][NextCards]_vars

\* sync, the duplicate query and the overwrite of add-card.
NextOverwrite == CardsSync \/ CardsFind \/ OverwriteCard

SpecOverwrite == InitCards /\ [][NextOverwrite]_vars

\* add-from-file, and sync.
NextImport == CardsSync \/ ImportStart \/ ImportRecord

SpecImport == InitCards /\ [][NextImport]_vars

\* ---------------------------------------------------------------- the claims
\* A step of the tool that is a call of incremental_sync_deck / of
\* add_single_card_to_vector_db.
SyncStep   == tick' # tick /\ call'.op = "sync"
IngestStep == tick' # tick /\ call'.op = "ingestOne"

\* The entries of a set of notes.
EntriesOf(notes) == {FrontId(n) : n \in notes} \cup {BackId(n) : n \in notes}

\* C1: reconcile run twice in succession with nothing changed in Anki or in
\* the index between the runs: the second run adds 0 notes, removes 0 notes
\* and leaves the index unchanged.  Stated for a first run in which no
\* collaborator call failed and a second run that obtained the deck's notes
\* (the reading most favourable to the code).
C1_SecondRunIsNoOp ==
    [][(SyncStep /\ call.op = "sync" /\ ~changed /\ FaultCount(call) = 0
            /\ ~call'.fetchFailed /\ ~call'.raised)
        => (call'.ret = 0 /\ call'.removed = 0 /\ index' = index)]_vars

\* C2: after a reconcile call in which no collaborator call fails, the notes
\* projected from the index are the notes of the deck (those that have Front
\* and Back), whatever the deck holds, no notes included.
C2_ConvergesAfterReconcile ==
    (call.op = "sync" /\ FaultCount(call) = 0 /\ ~changed)
        => ExistingNoteIds(index) = source \ malformed

\* C3: the notes a reconcile call submits to the index are the deck's notes
\* minus the notes actually in the index when the call starts, and no note
\* already in the index is submitted again, whatever the read of the index
\* answers.  Stated for calls that obtained the deck's notes and the
\* collection, and for the notes that have Front and Back.
C3_SubmitsOnlyMissingNotes ==
    [][(SyncStep /\ ~call'.fetchFailed /\ ~call'.raised)
        => /\ Submitted(call') = (source \ ExistingNoteIds(index)) \ malformed
           /\ Submitted(call') \cap ExistingNoteIds(index) = {}]_vars

\* C4 as claimed: with several batches, whatever batches fail, every other
\* batch is in the index, the call does not raise, the returned count is the
\* number of notes in the batches whose add succeeded, and the notes of the
\* failed batches are not in the index.
C4_CountsAllNotesOfAddedBatches ==
    (call.op = "sync" /\ Len(call.batches) >= 2) =>
        LET added  == {call.adds[k].batch : k \in {j \in 1..Len(call.adds) : call.adds[j].ok}}
            failed == {call.adds[k].batch : k \in {j \in 1..Len(call.adds) : ~call.adds[j].ok}}
        IN  /\ ~call.raised
            /\ \A i \in (1..Len(call.batches)) \ failed : EntriesOf(call.batches[i]) \subseteq index
            /\ call.ret = Cardinality(UNION {call.batches[i] : i \in added})
            /\ \A i \in failed : EntriesOf(call.batches[i]) \cap index = {}

\* C4, amended: with several batches, whatever batches fail, every batch
\* that has a note with Front and Back gets its one add call, a batch whose
\* add succeeds is in the index, the call does not raise, the returned count
\* is the number of notes with Front and Back in the batches whose add
\* succeeded, and the call adds no entry of a note of a failed batch.
C4_BatchIsolation ==
    [][(SyncStep /\ Len(call'.batches) >= 2) =>
        LET c == call'
        IN  /\ ~c.raised
            /\ \A i \in 1..Len(c.batches) :
                  LET wf   == c.batches[i] \ malformed
                      mine == {k \in 1..Len(c.adds) : c.adds[k].batch = i}
                  IN  IF wf = {} THEN mine = {}
                      ELSE /\ Cardinality(mine) = 1
                           /\ \A k \in mine : /\ c.adds[k].notes = wf
                                              /\ c.adds[k].ok => EntriesOf(wf) \subseteq index'
            /\ c.ret = Cardinality(AddedNotes(c))
            /\ AddedNotes(c) \cap FailedNotes(c) = {}
            /\ (index' \cap EntriesOf(FailedNotes(c))) \subseteq index]_vars

\* C4, witness: a call with three batches in which an add failed and the add
\* of a batch completing after it succeeded and was counted.
C4_Witness ==
    /\ call.op = "sync"
    /\ Len(call.batches) = 3
    /\ \E i, j \in 1..Len(call.adds) : i < j /\ ~call.adds[i].ok /\ call.adds[j].ok
    /\ call.ret > 0
    /\ EntriesOf(AddedNotes(call)) \subseteq index

\* C5: a failed batch is not retried within the call; with the deck
\* unchanged, the next reconcile call submits exactly the notes of the
\* batches that failed in the call before and none of a batch that
\* succeeded; when those adds succeed the index holds the deck's notes.
\* Stated for a first call that read the deck and the index, a next call
\* that obtained the deck's notes and the collection, and for the notes that
\* have Front and Back.
C5_NextCallSubmitsTheFailedNotes ==
    [][(SyncStep /\ call.op = "sync" /\ ~changed /\ FailedNotes(call) # {}
            /\ ~call.getFailed /\ ~call.delFailed
            /\ ~call'.fetchFailed /\ ~call'.raised)
        => /\ \A i, j \in 1..Len(call.adds) : call.adds[i].batch = call.adds[j].batch => i = j
           /\ Submitted(call') = FailedNotes(call)
           /\ Submitted(call') \cap AddedNotes(call) = {}
           /\ (FailedNotes(call') = {} /\ ~call'.delFailed)
                 => ExistingNoteIds(index') = source \ malformed]_vars

\* The outcome of a call of incremental_sync_deck as its caller sees it.
SyncOutcome(c) == [raised |-> c.raised, ret |-> c.ret]

\* C7: when the listing or the fetch of the deck's notes fails, reconcile
\* raises, and its outcome is not the outcome of reconciling a deck that has
\* no notes.
C7_SourceFailureIsRaised ==
    (call.op = "sync" /\ call.fetchFailed) =>
        /\ call.raised
        /\ SyncOutcome(call)
             # SyncOutcome(IncrementalSyncDeck({}, index, malformed, TRUE, TRUE, TRUE, TRUE, {},
                                               <<>>).call)

\* C9: add_single_card_to_vector_db never raises; it returns true when it
\* wrote the note's two entries and false otherwise, and when it returns
\* false the index is unchanged.
C9_IngestOneNeverRaises ==
    [][IngestStep =>
        /\ ~call'.raised
        /\ call'.ok <=> (AddedNotes(call') = {call'.note}
                           /\ EntriesOf({call'.note}) \subseteq index')
        /\ ~call'.ok => index' = index]_vars

\* What the caller of find_similar_cards gets.
FindOutcome(f) == [raised |-> f.raised, similar |-> f.similar]

\* C6: a failure of the index query reaches the caller of
\* find_similar_cards as an error, an outcome that is not the empty result
\* of a query that found nothing above the threshold.
C6_QueryFailureIsReported ==
    (find.pc = "done" /\ find.fault = "query") =>
        /\ find.raised
        /\ FindOutcome(find) # FindSimilarCards("none", <<>>, find.threshold)

C10_RequestedNameIsValid ==
    naming.pc = "done" =>
        /\ Len(naming.requested) >= MinLen
        /\ Len(naming.requested) <= MaxLen
        /\ \A i \in 1..Len(naming.requested) : naming.requested[i] \in Allowed

\* C11: for every deck name (the empty one, one without a letter or digit,
\* one longer than 63 characters) the name sanitize_collection_name returns
\* has 3 to 63 characters, all in [A-Za-z0-9_-]; with the name stripped of
\* its leading and trailing characters that are not letters or digits
\* (after the replacement of the characters outside [A-Za-z0-9_-] by "_"),
\* a stripped name shorter than 3 is returned padded with "_" on the right
\* to 3 characters, one longer than 63 is returned cut to its first 63
\* characters, and any other is returned as it is.
C11_SanitizedNameIsClamped ==
    naming.pc = "done" =>
        LET name   == naming.deck_name
            out    == naming.sanitized
            rep    == [i \in 1..Len(name) |-> IF name[i] \in Allowed THEN name[i] ELSE "_"]
            alnum  == {i \in 1..Len(name) : rep[i] \in Alnum}
            first  == CHOOSE i \in alnum : \A j \in alnum : i <= j
            last   == CHOOSE i \in alnum : \A j \in alnum : i >= j
            n      == IF alnum = {} THEN 0 ELSE last - first + 1
            at(k)  == rep[first + k - 1]
        IN  /\ Len(out) >= MinLen /\ Len(out) <= MaxLen
            /\ \A i \in 1..Len(out) : out[i] \in Allowed
            /\ n < MinLen => /\ Len(out) = MinLen
                             /\ \A k \in 1..MinLen : out[k] = IF k <= n THEN at(k) ELSE "_"
            /\ n > MaxLen => /\ Len(out) = MaxLen
                             /\ \A k \in 1..MaxLen : out[k] = at(k)
            /\ (n >= MinLen /\ n <= MaxLen) =>
                   /\ Len(out) = n
                   /\ \A k \in 1..n : out[k] = at(k)

\* C11, witness: a deck name that is longer than 63 characters after the
\* stripping, returned cut to 63 characters, the last one a replaced one.
C11_Witness ==
    /\ naming.pc = "done"
    /\ Len(naming.deck_name) > MaxLen
    /\ naming.deck_name[1] = "a" /\ naming.deck_name[2] = " "
    /\ naming.deck_name[Len(naming.deck_name)] = "Z"
    /\ Len(naming.sanitized) = MaxLen
    /\ naming.sanitized[MaxLen] = "_"

\* The batches whose add failed in a call.
FailedBatches(c) == {c.adds[k].batch : k \in {j \in 1..Len(c.adds) : ~c.adds[j].ok}}

\* C12: for the batches of a call and an outcome of each batch's add, the
\* returned count and the index after the call do not depend on the order
\* in which the batches complete: whatever that order was, they are those of
\* the call in which the batches complete in the order of their numbers.
C12_OrderIndependent ==
    [][(SyncStep /\ Len(call'.batches) >= 2) =>
        LET inOrder == [i \in 1..Len(call'.batches) |-> i]
            r == IncrementalSyncDeck(source, index, malformed, TRUE, TRUE,
                                     ~call'.getFailed, ~call'.delFailed,
                                     FailedBatches(call'), inOrder)
        IN  /\ call'.ret = r.call.ret
            /\ index' = r.index]_vars

\* C12, witness: a call with three batches of which the last completed
\* first and the first last, one add failing and the others adding
\* different numbers of notes.
C12_Witness ==
    /\ call.op = "sync"
    /\ Len(call.batches) = 3 /\ Len(call.adds) = 3
    /\ call.adds[1].batch = 3 /\ call.adds[3].batch = 1
    /\ \E i, j, k \in 1..3 :
          /\ ~call.adds[i].ok /\ call.adds[j].ok /\ call.adds[k].ok
          /\ Cardinality(call.adds[j].notes) # Cardinality(call.adds[k].notes)
    /\ call.ret > 0

\* C13: in a reconcile call the delete of the entries of toRemove is made
\* before any batch add; when the delete fails the call does not raise, the
\* notes of toAdd are still submitted, the stale entries stay in the index,
\* and, Anki unchanged, the same notes are in toRemove of the next reconcile
\* call.  Stated for a next call that obtained the deck's notes and the
\* collection, and for the notes that have Front and Back.
C13_RemovalFirstBestEffort ==
    [][SyncStep =>
        /\ \A i, j \in 1..Len(call'.calls) :
              (call'.calls[i] = "delete" /\ call'.calls[j] = "add") => i < j
        /\ call'.delFailed =>
              /\ ~call'.raised
              /\ Submitted(call') = (UNION SeqToSet(call'.batches)) \ malformed
              /\ UNION SeqToSet(call'.batches) = source \ ExistingNoteIds(index)
              /\ (index \cap EntriesOf(call'.toRemove)) \subseteq index'
        /\ (call.op = "sync" /\ call.delFailed /\ ~changed
                /\ ~call'.fetchFailed /\ ~call'.raised)
              => call.toRemove \subseteq call'.toRemove]_vars

\* The entries of the notes of a batch that have Front and Back, a front and
\* a back entry per note in the order of the notes.
WellFormedIds(batch, mal) ==
    LET wf == SortedSeq(batch \ mal)
    IN  [k \in 1..(2 * Len(wf)) |-> IF k % 2 = 1 THEN FrontId(wf[(k + 1) \div 2])
                                     ELSE BackId(wf[k \div 2])]

\* C16: a note of a batch that lacks Front or Back gets no entry, neither
\* front nor back; every other note of the batch gets both, in order; the
\* entries of the batch are still passed to the index with one add, and are
\* in the index when that add succeeds; the returned count counts the notes
\* that have Front and Back; reconcile does not raise.
C16_MalformedNotesAreSkipped ==
    (call.op = "sync" /\ Len(call.batches) >= 1) =>
        /\ ~call.raised
        /\ \A i \in 1..Len(call.batches) :
              LET expected == WellFormedIds(call.batches[i], malformed)
                  mine == {k \in 1..Len(call.adds) : call.adds[k].batch = i}
              IN  /\ \A k \in mine :
                        /\ call.adds[k].ids = expected
                        /\ EntriesOf(call.batches[i] \cap malformed)
                              \cap SeqToSet(call.adds[k].ids) = {}
                        /\ call.adds[k].ok => SeqToSet(expected) \subseteq index
                  /\ expected # <<>> => Cardinality(mine) = 1
        /\ call.ret = Cardinality(AddedNotes(call) \ malformed)
        /\ AddedNotes(call) \cap malformed = {}

\* C16, witness: a call with three batches, the first with a note lacking a
\* field among 19 that have both, the last made of such a note alone; the
\* first batch was added and the call returned the count of the notes that
\* have Front and Back.
C16_Witness ==
    /\ call.op = "sync" /\ Len(call.batches) = 3
    /\ call.batches[1] \cap malformed # {}
    /\ call.batches[3] \subseteq malformed
    /\ \E k \in 1..Len(call.adds) :
          /\ call.adds[k].batch = 1 /\ call.adds[k].ok
          /\ Len(call.adds[k].ids) = 2 * (BatchSize - 1)
    /\ call.ret = 2 * BatchSize - 1
    /\ EntriesOf(malformed) \cap index = {}

\* C18: a reconcile call during which a note is deleted in Anki (after the
\* listing of the ids, or after the fetch of the notes) does not raise, and
\* the first reconcile call after it, with no further change in Anki,
\* leaves no entry of that note in the index.  Stated for a next call in
\* which no collaborator call fails.
C18_ToleratesDeletionDuringCall ==
    [][SyncStep =>
        /\ call'.gone # {} => ~call'.raised
        /\ (call.op = "sync" /\ call.gone # {} /\ ~changed /\ call'.gone = {}
                /\ FaultCount(call') = 0)
              => EntriesOf(call.gone) \cap index' = {}]_vars

OverwriteStep == session' # session /\ session'.last.op = "overwrite"
AddCardStep   == session' # session /\ session'.last.op = "addCard"

\* The entries the index holds for a note.
EntriesOfNote(dcs, n) == {e \in DOMAIN dcs : e[1] = n}

\* C14: when add_single_card_to_vector_db is called for a note that is
\* indexed, after updateNoteFields changed its front or back text, and
\* returns true, the entries <noteId>_front and <noteId>_back hold the
\* note's current front and back, and the index holds no other entry of
\* the note.
C14_IngestOneOverwrites ==
    [][(OverwriteStep /\ session'.updated /\ session'.last.ok
            /\ session'.last.note \in ExistingNoteIds(DOMAIN docs)
            /\ fields'[session'.last.note] # fields[session'.last.note])
        => LET n == session'.last.note
           IN  /\ EntriesOfNote(docs', n) = {FrontId(n), BackId(n)}
               /\ docs'[FrontId(n)] = fields'[n]
               /\ docs'[BackId(n)] = fields'[n]]_vars

\* C15: in every state of the index reached through incremental_sync_deck
\* and add_single_card_to_vector_db, what find_similar_cards returns has at
\* most one candidate per note and at most 5 candidates.
C15_OneCandidatePerNote ==
    /\ Len(session.similar) <= NResults
    /\ \A i, j \in 1..Len(session.similar) :
          session.similar[i].note_id = session.similar[j].note_id => i = j

\* C15, witness: the index holds the front and the back entry of more than
\* 5 notes, and find_similar_cards has returned 5 candidates.
C15_Witness ==
    /\ session.last.op = "find"
    /\ Len(session.similar) = NResults
    /\ Cardinality(ExistingNoteIds(DOMAIN docs)) > NResults
    /\ \A n \in ExistingNoteIds(DOMAIN docs) : BackId(n) \in DOMAIN docs

\* C19: during a run of add-from-file, whatever the index add calls answer,
\* the run creates no two notes with the same front, and no note whose front
\* is the front of a note that was indexed when the run's first sync
\* finished.  Stated for runs in which no other collaborator call fails.
C19_ImportCreatesNoDuplicate ==
    ~session.otherFailed =>
        /\ \A m, n \in session.created :
              fields[m].front = fields[n].front => m = n
        /\ \A n \in session.created : fields[n].front \notin session.atStart

\* C20: add_card_to_anki returns true only when the note is created in Anki
\* and its two entries are in the index, and when it returns false neither
\* Anki nor the index has changed.
C20_AddCardAllOrNothing ==
    [][AddCardStep =>
        /\ session'.last.ok =>
              \E n \in DOMAIN fields' \ DOMAIN fields :
                  {FrontId(n), BackId(n)} \subseteq DOMAIN docs'
        /\ (~session'.last.ok /\ ~session'.last.raised) =>
              (fields' = fields /\ docs' = docs)]_vars

\* C22: in every state of the index reached from the empty index through
\* calls of incremental_sync_deck and add_single_card_to_vector_db, with add
\* and delete calls failing as a whole, every entry id is <noteId>_front or
\* <noteId>_back, a note has its front entry exactly when it has its back
\* entry, and the notes of the front entries are all the indexed notes.
C22_FacetsArePaired ==
    /\ \A e \in index : e \in {FrontId(e[1]), BackId(e[1])} /\ e[1] \in Nat \ {0}
    /\ \A e \in index : FrontId(e[1]) \in index <=> BackId(e[1]) \in index
    /\ ExistingNoteIds(index) = {e[1] : e \in index}

\* C22, witness: a call of incremental_sync_deck had notes to remove and an
\* add that failed, and the index holds entries.
C22_Witness ==
    /\ call.op = "sync" /\ call.toRemove # {} /\ FailedNotes(call) # {}
    /\ index # {}

\* The notes that have an entry in a collection.
NotesOfEntries(idx) == {e[1] : e \in idx}

\* C21: for two decks with distinct names, a call of incremental_sync_deck
\* for one deck leaves every entry in place that a call for the other deck
\* has added; and after a call for deck A followed by a call for deck B,
\* with Anki unchanged, every entry of A's collection is of a note of deck
\* A, and the next call for A adds 0 notes and removes 0.
C21_CollectionsAreIsolated ==
    LET log == stores.log
        nameOf(d) == GetCollectionName(stores.names[d])
    IN  /\ \A i \in 1..Len(log) :
              \A x \in log[i].made[3 - log[i].deck] : x[2] \in log[i].after[x[1]]
        /\ \A i \in 2..Len(log) :
              log[i - 1].deck # log[i].deck =>
                  NotesOfEntries(log[i].after[nameOf(log[i - 1].deck)])
                      \subseteq stores.notes[log[i - 1].deck]
        /\ \A i \in 3..Len(log) :
              (log[i - 2].deck = log[i].deck /\ log[i - 1].deck # log[i].deck) =>
                  (log[i].ret = 0 /\ log[i].removed = 0)

====
